---- MODULE Spec2Model ----
(***************************************************************************)
(* Model of the vibe-translator backend: the in-memory repository          *)
(* (server/storage.ts, MemStorage), the generative-text client             *)
(* (server/utils.ts, generateText and the gemini object), the archive      *)
(* client (services/community-archive) and the request handlers            *)
(* (server/routes.ts).                                                     *)
(***************************************************************************)
EXTENDS Integers, Sequences, FiniteSets, TLC

VARIABLES
  users,        \* MemStorage.users       : Map<number, User>
  insights,     \* MemStorage.insights    : Map<number, Insight>
  comparisons,  \* MemStorage.comparisons : Map<number, Comparison>
  currentIds,   \* MemStorage.currentIds  : { user, insight, comparison }
  now,          \* the wall clock read by `new Date()`
  issued,       \* history: the records returned by create*, per kind, in creation order
  ret,          \* the last Repository call: its name, argument, result and error
  apiKey,       \* whether process.env.GEMINI_API_KEY is set
  response,     \* what the generative service answers to the one request of a call
  genRet,       \* the last generator call: its name and how its promise settled
  reqs,         \* the requests in flight: route, input, position and locals of each handler
  reply         \* the last HTTP response sent, with the request it answers

storeVars == <<users, insights, comparisons, currentIds>>
repoVars == <<users, insights, comparisons, currentIds, now, issued, ret>>
genVars == <<apiKey, response, genRet>>
routeVars == <<reqs, reply>>
vars == <<users, insights, comparisons, currentIds, now, issued, ret,
          apiKey, response, genRet, reqs, reply>>

----------------------------------------------------------------------------
(* Bounds of the model.                                                    *)

MaxRecords == 2   \* create* calls in one run, all kinds together
MaxTextLen == 5   \* tokens in a generated text
MaxInFlight == 2  \* requests being handled at once
MaxPerKind == 2   \* users, and insights, the handlers create in one run
MaxCompared == 1  \* comparisons the handlers create in one run

----------------------------------------------------------------------------
(* Values.  A handle is a sequence of characters, so that stripping a      *)
(* leading "@" is an operation on it.  A JavaScript object is a function   *)
(* from field names to values; an absent field is absent from its DOMAIN.  *)

Undefined == <<>>              \* `undefined` as a lookup result; a hit is <<record>>
EmptyObject == <<>>            \* {}

Kinds == {"user", "insight", "comparison"}
SuppliedIds == {2}
Clock == {1, 2}            \* the instants `new Date()` can read
SuppliedDates == {0, 2}    \* caller-supplied createdAt values
UserRefs == {1, 2}
Usernames == {"u"}
StoreHandles == {<<"a">>, <<"@", "a">>}
Descriptions == {"d1"}           \* descriptions given at creation
Redescriptions == {"d2"}         \* descriptions given by an update
Explanations == {"e"}

\* InsertUser: createInsertSchema(users); the serial id column is optional in it
InsertUsers ==
  [username : Usernames, twitterHandle : StoreHandles]
    \cup [id : SuppliedIds, username : Usernames, twitterHandle : StoreHandles]

\* InsertInsight: createInsertSchema(insights); description stands for the text columns
InsertInsights ==
  [userId : UserRefs, description : Descriptions]
    \cup [id : SuppliedIds, userId : UserRefs, description : Descriptions]

\* Partial<InsertInsight>
PartialInsights ==
  {EmptyObject} \cup [description : Redescriptions] \cup [id : SuppliedIds]

\* InsertComparison: createInsertSchema(comparisons)
InsertComparisons ==
  [userAId : UserRefs, userBId : UserRefs, explanation : Explanations,
   createdAt : SuppliedDates]
    \cup [id : SuppliedIds, userAId : UserRefs, userBId : UserRefs,
          explanation : Explanations, createdAt : SuppliedDates]

----------------------------------------------------------------------------
(* JavaScript helpers.                                                     *)

\* { ...a, ...b }: the fields of both, b's value where both have the field
Spread(a, b) ==
  [f \in (DOMAIN a) \cup (DOMAIN b) |-> IF f \in DOMAIN b THEN b[f] ELSE a[f]]

\* map.set(key, value)
MapSet(m, key, value) == (key :> value) @@ m

RECURSIVE KeysInOrder(_)
\* The keys of a Map in insertion order.  Keys are only ever drawn from an
\* increasing counter, so insertion order is ascending key order.
KeysInOrder(S) ==
  IF S = {} THEN <<>>
  ELSE LET k == CHOOSE x \in S : \A y \in S : x <= y
       IN <<k>> \o KeysInOrder(S \ {k})

\* Array.from(map.values())
Values(m) ==
  LET ks == KeysInOrder(DOMAIN m) IN [i \in 1..Len(ks) |-> m[ks[i]]]

\* array.find(test), given the elements passing the test in array order:
\* the first of them, or undefined
Find(hits) == IF hits = <<>> THEN Undefined ELSE <<hits[1]>>

\* map.get(key)
MapGet(m, key) == IF key \in DOMAIN m THEN <<m[key]>> ELSE Undefined

----------------------------------------------------------------------------
(* MemStorage.  Each method is an operator from the store `this` (and the  *)
(* arguments) to the store after the call, the returned value `result`     *)
(* and the thrown error `err` ("" when nothing is thrown).                 *)

This ==
  [users |-> users, insights |-> insights, comparisons |-> comparisons,
   currentIds |-> currentIds]

getUser(this, id) == MapGet(this.users, id)

getUserByTwitterHandle(this, handle) ==
  Find(SelectSeq(Values(this.users), LAMBDA user : user.twitterHandle = handle))

\* createUser reading the counter without advancing it
createUser_SameKey(this, insertUser) ==
  LET id == this.currentIds.user
      user == Spread([id |-> id], insertUser)
  IN [this |-> [this EXCEPT !.users = MapSet(this.users, id, user)],
      result |-> <<user>>, err |-> ""]

createUser(this, insertUser) ==
  LET id == this.currentIds.user
      user == Spread([id |-> id], insertUser)
  IN [this |-> [this EXCEPT !.currentIds.user = id + 1,
                            !.users = MapSet(this.users, id, user)],
      result |-> <<user>>, err |-> ""]

getInsight(this, userId) ==
  Find(SelectSeq(Values(this.insights), LAMBDA insight : insight.userId = userId))

createInsight(this, insertInsight) ==
  LET id == this.currentIds.insight
      insight == Spread([id |-> id], insertInsight)
  IN [this |-> [this EXCEPT !.currentIds.insight = id + 1,
                            !.insights = MapSet(this.insights, id, insight)],
      result |-> <<insight>>, err |-> ""]

\* updateInsight without the `if (!existing) throw`: a missing id is inserted
updateInsight_Upsert(this, id, updateData) ==
  LET existing == MapGet(this.insights, id)
      updated == IF existing = Undefined THEN updateData
                 ELSE Spread(existing[1], updateData)
  IN [this |-> [this EXCEPT !.insights = MapSet(this.insights, id, updated)],
      result |-> <<updated>>, err |-> ""]

updateInsight(this, id, updateData) ==
  LET existing == MapGet(this.insights, id)
  IN IF existing = Undefined
     THEN [this |-> this, result |-> Undefined, err |-> "Insight not found"]
     ELSE LET updated == Spread(existing[1], updateData)
          IN [this |-> [this EXCEPT !.insights = MapSet(this.insights, id, updated)],
              result |-> <<updated>>, err |-> ""]

getComparison(this, id) == MapGet(this.comparisons, id)

\* `date` is the value of `new Date()` at the call
createComparison(this, insertComparison, date) ==
  LET id == this.currentIds.comparison
      comparison == Spread(Spread([id |-> id], insertComparison), [createdAt |-> date])
  IN [this |-> [this EXCEPT !.currentIds.comparison = id + 1,
                            !.comparisons = MapSet(this.comparisons, id, comparison)],
      result |-> <<comparison>>, err |-> ""]

\* getComparisonsByUser testing the A side only
getComparisonsByUser_OnlyA(this, userId) ==
  SelectSeq(Values(this.comparisons), LAMBDA comparison : comparison.userAId = userId)

getComparisonsByUser(this, userId) ==
  SelectSeq(Values(this.comparisons),
            LAMBDA comparison : comparison.userAId = userId \/ comparison.userBId = userId)

----------------------------------------------------------------------------
(* Repository calls as actions.                                            *)

Commit(this) ==
  /\ users' = this.users
  /\ insights' = this.insights
  /\ comparisons' = this.comparisons
  /\ currentIds' = this.currentIds

Created == (currentIds.user - 1) + (currentIds.insight - 1) + (currentIds.comparison - 1)

Call(op, arg, val, err) == [op |-> op, arg |-> arg, val |-> val, err |-> err]

InitStore ==
  /\ users = <<>>
  /\ insights = <<>>
  /\ comparisons = <<>>
  /\ currentIds = [user |-> 1, insight |-> 1, comparison |-> 1]
  /\ now = 1
  /\ issued = [k \in Kinds |-> <<>>]
  /\ ret = Call("none", 0, Undefined, "")

CreateUser ==
  \E insertUser \in InsertUsers :
    /\ Created < MaxRecords
    /\ LET r == createUser(This, insertUser)
       IN /\ Commit(r.this)
          /\ issued' = [issued EXCEPT !.user = Append(@, r.result[1])]
          /\ ret' = Call("createUser", insertUser, r.result, r.err)
    /\ UNCHANGED <<now, genVars, routeVars>>

CreateInsight ==
  \E insertInsight \in InsertInsights :
    /\ Created < MaxRecords
    /\ LET r == createInsight(This, insertInsight)
       IN /\ Commit(r.this)
          /\ issued' = [issued EXCEPT !.insight = Append(@, r.result[1])]
          /\ ret' = Call("createInsight", insertInsight, r.result, r.err)
    /\ UNCHANGED <<now, genVars, routeVars>>

UpdateInsight ==
  \E id \in 1..MaxRecords, updateData \in PartialInsights :
    /\ LET r == updateInsight(This, id, updateData)
       IN /\ Commit(r.this)
          /\ ret' = Call("updateInsight", [id |-> id, updateData |-> updateData],
                         r.result, r.err)
    /\ UNCHANGED <<now, issued, genVars, routeVars>>

\* time passes before `new Date()` is read
CreateComparison ==
  \E insertComparison \in InsertComparisons, date \in {d \in Clock : d >= now} :
    /\ Created < MaxRecords
    /\ now' = date
    /\ LET r == createComparison(This, insertComparison, date)
       IN /\ Commit(r.this)
          /\ issued' = [issued EXCEPT !.comparison = Append(@, r.result[1])]
          /\ ret' = Call("createComparison", insertComparison, r.result, r.err)
    /\ UNCHANGED <<genVars, routeVars>>

GetUser ==
  \E id \in 1..MaxRecords :
    /\ ret' = Call("getUser", id, getUser(This, id), "")
    /\ UNCHANGED <<storeVars, now, issued, genVars, routeVars>>

GetUserByTwitterHandle ==
  \E handle \in StoreHandles :
    /\ ret' = Call("getUserByTwitterHandle", handle, getUserByTwitterHandle(This, handle), "")
    /\ UNCHANGED <<storeVars, now, issued, genVars, routeVars>>

GetInsight ==
  \E userId \in 1..MaxRecords :
    /\ ret' = Call("getInsight", userId, getInsight(This, userId), "")
    /\ UNCHANGED <<storeVars, now, issued, genVars, routeVars>>

GetComparison ==
  \E id \in 1..MaxRecords :
    /\ ret' = Call("getComparison", id, getComparison(This, id), "")
    /\ UNCHANGED <<storeVars, now, issued, genVars, routeVars>>

GetComparisonsByUser ==
  \E userId \in 1..MaxRecords :
    /\ ret' = Call("getComparisonsByUser", userId, getComparisonsByUser(This, userId), "")
    /\ UNCHANGED <<storeVars, now, issued, genVars, routeVars>>

NoResponse == [status |-> "none", text |-> <<>>]
NoCall == [op |-> "none"]

InitIdleGenerator ==
  /\ apiKey = TRUE
  /\ response = NoResponse
  /\ genRet = NoCall

Slots == 1..MaxInFlight
Free == [pc |-> "free"]
NoReply == [route |-> "none"]

InitIdleServer ==
  /\ reqs = [s \in Slots |-> Free]
  /\ reply = NoReply

\* The Repository under create, update and lookup by id
Init == InitStore /\ InitIdleGenerator /\ InitIdleServer

Next ==
  \/ CreateUser
  \/ CreateInsight
  \/ UpdateInsight
  \/ CreateComparison
  \/ GetUser
  \/ GetInsight
  \/ GetComparison

Spec == Init /\ [][Next]_vars

\* The Repository's scans over users and comparisons
NextQuery ==
  \/ CreateUser
  \/ CreateComparison
  \/ GetUserByTwitterHandle
  \/ GetComparisonsByUser

SpecQuery == Init /\ [][NextQuery]_vars

\* The Repository under every operation of IStorage
NextRepo == Next \/ NextQuery

SpecRepo == Init /\ [][NextRepo]_vars

----------------------------------------------------------------------------
(* The generative-text client.  A generated text is a sequence of tokens:  *)
(* the braces, prose, and whole members of a JSON object (a member token   *)
(* carries the separating comma it needs).                                 *)

Members == {"d", "e", "t", "s", "f"}
  \* d  "description": "D"        e  "description": ""
  \* t  "topics": ["T"]           s  "topics": "T"
  \* f  "sourceFrame": "S", "targetFrame": "G", "translation": "R"
Tokens == {"{", "}", "x"} \cup Members      \* x: prose
Texts == UNION {[1..n -> Tokens] : n \in 0..MaxTextLen}

\* What the service can answer: the fetch rejects; a non-2xx status; a body
\* that is not JSON; the body `null`; a body without candidates; a candidate
\* whose parts are empty; a candidate with a text.
Failures == {"network_error", "http_error", "bad_json", "null_body",
             "no_candidates", "no_parts"}
Responses ==
  [status : Failures, text : {<<>>}] \cup [status : {"text"}, text : Texts]

Resolved(value) == [outcome |-> "resolved", value |-> value]
Rejected(error) == [outcome |-> "rejected", error |-> error]

KeyNotSet == "GEMINI_API_KEY environment variable is not set"

\* text.match(/\{[\s\S]*\}/): from the first "{" to the last "}" after it
Match(text) ==
  LET opens == {i \in 1..Len(text) : text[i] = "{"}
      closes == {i \in 1..Len(text) : text[i] = "}"}
  IN IF opens = {} THEN Undefined
     ELSE LET first == CHOOSE i \in opens : \A j \in opens : i <= j
              after == {j \in closes : j > first}
          IN IF after = {} THEN Undefined
             ELSE LET last == CHOOSE i \in after : \A j \in after : i >= j
                  IN <<SubSeq(text, first, last)>>

EmptyParsed ==
  [hasDescription |-> FALSE, description |-> "", topics |-> "absent",
   hasFrames |-> FALSE]

RECURSIVE ReadMembers(_, _)
\* the object a member list denotes; a later member replaces an earlier one
ReadMembers(ms, obj) ==
  IF ms = <<>> THEN obj
  ELSE LET m == Head(ms)
           next ==
             CASE m = "d" -> [obj EXCEPT !.hasDescription = TRUE, !.description = "D"]
               [] m = "e" -> [obj EXCEPT !.hasDescription = TRUE, !.description = ""]
               [] m = "t" -> [obj EXCEPT !.topics = "list"]
               [] m = "s" -> [obj EXCEPT !.topics = "string"]
               [] m = "f" -> [obj EXCEPT !.hasFrames = TRUE]
       IN ReadMembers(Tail(ms), next)

\* JSON.parse(jsonStr): <<object>>, or Undefined when it throws a SyntaxError
JSONParse(jsonStr) ==
  LET n == Len(jsonStr)
  IN IF /\ n >= 2
        /\ jsonStr[1] = "{"
        /\ jsonStr[n] = "}"
        /\ \A i \in 2..(n - 1) : jsonStr[i] \in Members
     THEN <<ReadMembers(SubSeq(jsonStr, 2, n - 1), EmptyParsed)>>
     ELSE Undefined

generateText(key, resp) ==
  IF ~key THEN Rejected(KeyNotSet)
  ELSE CASE resp.status = "network_error" -> Rejected("fetch failed")
         [] resp.status = "http_error" -> Rejected("Gemini API error")
         [] resp.status = "bad_json" -> Rejected("SyntaxError")
         [] resp.status = "null_body" -> Rejected("ZodError")
         [] resp.status = "no_candidates" -> Rejected("No content in the response")
         [] resp.status = "no_parts" -> Rejected("No content in the response")
         [] resp.status = "text" -> Resolved(resp.text)

DefaultDescription == "AI couldn't generate a description"
FixedFallback ==
  [description |-> "This user appears to be interested in technology and social media.",
   topics |-> <<"Technology", "Social Media">>]
ParseErrorFallback ==
  [description |-> "Error parsing AI response. The user appears to be active on social media.",
   topics |-> <<"Social Media">>]
CallErrorFallback ==
  [description |-> "Unable to analyze the Twitter profile at this time.",
   topics |-> <<"Unknown">>]

\* the pair built from a parsed object, with topics passed through undefaulted
InsightFields_TopicsAsIs(parsed) ==
  [description |-> IF parsed.hasDescription /\ parsed.description # ""
                   THEN parsed.description ELSE DefaultDescription,
   topics |-> IF parsed.topics = "absent" THEN <<"undefined">> ELSE <<"T">>]

\* { description: parsed.description || default,
\*   topics: Array.isArray(parsed.topics) ? parsed.topics : [] }
InsightFields(parsed) ==
  [description |-> IF parsed.hasDescription /\ parsed.description # ""
                   THEN parsed.description ELSE DefaultDescription,
   topics |-> IF parsed.topics = "list" THEN <<"T">> ELSE <<>>]

\* the inner try block with its catch returning the fixed fallback as well
InsightsFromData_OneFallback(resp) ==
  CASE resp.status \in {"null_body", "no_parts"} -> FixedFallback
    [] resp.status = "no_candidates" -> FixedFallback
    [] resp.status = "text" ->
         LET jsonMatch == Match(resp.text)
         IN IF jsonMatch = Undefined THEN FixedFallback
            ELSE LET parsed == JSONParse(jsonMatch[1])
                 IN IF parsed = Undefined THEN FixedFallback
                    ELSE InsightFields(parsed[1])

\* The inner try block of generateInsights, run on the decoded body `data`:
\* a TypeError or SyntaxError in it is caught and answered by the parse-error pair.
InsightsFromData(resp) ==
  CASE resp.status \in {"null_body", "no_parts"} -> ParseErrorFallback
    [] resp.status = "no_candidates" -> FixedFallback
    [] resp.status = "text" ->
         LET jsonMatch == Match(resp.text)
         IN IF jsonMatch = Undefined THEN FixedFallback
            ELSE LET parsed == JSONParse(jsonMatch[1])
                 IN IF parsed = Undefined THEN ParseErrorFallback
                    ELSE InsightFields(parsed[1])

\* generateInsights without the outer catch: a failed request rejects
generateInsights_NoOuterCatch(key, resp) ==
  IF ~key THEN Rejected(KeyNotSet)
  ELSE IF resp.status \in {"network_error", "http_error", "bad_json"}
       THEN Rejected("Gemini API request failed")
       ELSE Resolved(InsightsFromData(resp))

generateInsights(key, resp) ==
  IF ~key THEN Rejected(KeyNotSet)
  ELSE IF resp.status \in {"network_error", "http_error", "bad_json"}
       THEN Resolved(CallErrorFallback)
       ELSE Resolved(InsightsFromData(resp))

explainArgument(key, resp) == generateText(key, resp)

FrameFields(parsed) ==
  IF parsed.hasFrames
  THEN [sourceFrame |-> "S", targetFrame |-> "G", translation |-> "R"]
  ELSE [sourceFrame |-> "undefined", targetFrame |-> "undefined",
        translation |-> "undefined"]

\* translateBetweenFrames answering a text without JSON by a default value
translateBetweenFrames_Fallback(key, resp) ==
  LET generated == generateText(key, resp)
  IN IF generated.outcome = "rejected" THEN generated
     ELSE LET jsonMatch == Match(generated.value)
              parsed == IF jsonMatch = Undefined THEN Undefined
                        ELSE JSONParse(jsonMatch[1])
          IN IF parsed = Undefined THEN Resolved(FrameFields(EmptyParsed))
             ELSE Resolved(FrameFields(parsed[1]))

translateBetweenFrames(key, resp) ==
  LET generated == generateText(key, resp)
  IN IF generated.outcome = "rejected" THEN generated
     ELSE LET jsonMatch == Match(generated.value)
          IN IF jsonMatch = Undefined
             THEN Rejected("Could not parse JSON from response")
             ELSE LET parsed == JSONParse(jsonMatch[1])
                  IN IF parsed = Undefined THEN Rejected("SyntaxError")
                     ELSE Resolved(FrameFields(parsed[1]))

\* One generator call per behaviour: the environment is drawn at the start.
\* Without an API key no request is issued, so there is no response.
InitGen ==
  /\ InitStore
  /\ InitIdleServer
  /\ apiKey \in BOOLEAN
  /\ response \in IF apiKey THEN Responses ELSE {NoResponse}
  /\ genRet = NoCall

GenCall(op, result) == [op |-> op, result |-> result]

GenerateText ==
  /\ genRet = NoCall
  /\ genRet' = GenCall("generateText", generateText(apiKey, response))
  /\ UNCHANGED <<repoVars, apiKey, response, routeVars>>

GenerateInsights ==
  /\ genRet = NoCall
  /\ genRet' = GenCall("generateInsights", generateInsights(apiKey, response))
  /\ UNCHANGED <<repoVars, apiKey, response, routeVars>>

ExplainArgument ==
  /\ genRet = NoCall
  /\ genRet' = GenCall("explainArgument", explainArgument(apiKey, response))
  /\ UNCHANGED <<repoVars, apiKey, response, routeVars>>

TranslateBetweenFrames ==
  /\ genRet = NoCall
  /\ genRet' = GenCall("translateBetweenFrames", translateBetweenFrames(apiKey, response))
  /\ UNCHANGED <<repoVars, apiKey, response, routeVars>>

NextGen ==
  \/ GenerateText
  \/ GenerateInsights
  \/ ExplainArgument
  \/ TranslateBetweenFrames

SpecGen == InitGen /\ [][NextGen]_vars

----------------------------------------------------------------------------
(* The archive client and the request handlers.  A handler runs from one   *)
(* await to the next in one step; a call to the store reads or writes the  *)
(* maps when it is made, and its value reaches the handler at the next     *)
(* step.  What the archive and the generative service answer is drawn when *)
(* the handler resumes.                                                    *)

RouteHandles == {<<"a">>, <<"b">>}                  \* handles in request bodies
RequestHandles == {<<"a">>, <<"@", "a">>, <<"b">>}  \* :handle in the URL
ArchiveOutcomes == {"http_error", "no_tweets", "tweets"}
InsightResponses == {[status |-> "text", text |-> <<"{", "d", "t", "}">>]}
ExplainResponses ==
  {[status |-> "http_error", text |-> <<>>],
   [status |-> "text", text |-> <<>>],
   [status |-> "text", text |-> <<"x">>]}

\* req.body of POST /api/users: valid, carrying an id, carrying a key the
\* schema does not know, and lacking a required column
UserBodies ==
  [username : Usernames, twitterHandle : RouteHandles]
    \cup [id : SuppliedIds, username : Usernames, twitterHandle : {<<"a">>}]
    \cup {[username |-> "u", twitterHandle |-> <<"a">>, role |-> "admin"],
          [username |-> "u"]}

\* req.body of POST /api/comparisons; createdAt is the client's own
ComparisonBodies == [userAId : UserRefs, userBId : UserRefs, createdAt : {0}]

RECURSIVE cleanHandle(_)
\* handle.replace(/^@+/, '')
cleanHandle(handle) ==
  IF handle # <<>> /\ Head(handle) = "@" THEN cleanHandle(Tail(handle)) ELSE handle

\* communityArchive.getRecentPopularTweets: the full_text of the tweets fetched
getRecentPopularTweets(handle, outcome) ==
  CASE outcome = "http_error" -> Rejected("Failed to fetch tweets")
    [] outcome = "no_tweets" -> Resolved(<<>>)
    [] outcome = "tweets" -> Resolved(<<"tweet">>)

\* !tweets.map(t => t.full_text).join("\n").trim()
BlankHistory(tweets) == \A i \in 1..Len(tweets) : tweets[i] \in {"", " "}

\* insertUserSchema.parse(body): <<data>> with the schema's keys only, or
\* Undefined when it throws (a required column is missing)
parseInsertUser(body) ==
  IF {"username", "twitterHandle"} \subseteq DOMAIN body
  THEN <<[f \in (DOMAIN body) \cap {"id", "username", "twitterHandle"} |-> body[f]]>>
  ELSE Undefined

Message(text) == [message |-> text]

LowestFree(s) == /\ reqs[s] = Free
                 /\ \A t \in DOMAIN reqs : t < s => reqs[t] # Free

Respond(s, status, body) ==
  /\ reqs' = [reqs EXCEPT ![s] = Free]
  /\ reply' = [route |-> reqs[s].route, status |-> status, body |-> body]

Stored(r, kind) ==
  /\ Commit(r.this)
  /\ issued' = [issued EXCEPT ![kind] = Append(@, r.result[1])]

InitRoutes ==
  /\ InitStore
  /\ InitIdleServer
  /\ apiKey \in BOOLEAN
  /\ response = NoResponse
  /\ genRet = NoCall

\* POST /api/users: a body the schema refuses is answered 400 at once
PostUsersStart(s) ==
  \E body \in UserBodies :
    /\ LowestFree(s)
    /\ currentIds.user - 1 < MaxPerKind
    /\ LET data == parseInsertUser(body)
       IN IF data = Undefined
          THEN /\ reply' = [route |-> "users", status |-> 400,
                            body |-> Message("ZodError")]
               /\ UNCHANGED <<storeVars, issued, reqs>>
          ELSE LET r == createUser(This, data[1])
               IN /\ Stored(r, "user")
                  /\ reqs' = [reqs EXCEPT ![s] =
                       [route |-> "users", input |-> body, pc |-> "created",
                        user |-> r.result[1]]]
                  /\ UNCHANGED reply
    /\ UNCHANGED <<now, ret, genVars>>

PostUsersCreated(s) ==
    /\ reqs[s].pc = "created" /\ reqs[s].route = "users"
    /\ Respond(s, 200, reqs[s].user)
    /\ UNCHANGED <<repoVars, genVars>>

\* GET /api/users/:handle/insights
GetInsightsStart(s) ==
  \E handle \in RequestHandles :
    /\ LowestFree(s)
    /\ reqs' = [reqs EXCEPT ![s] =
         [route |-> "insights", input |-> handle, pc |-> "user",
          lookup |-> handle, user |-> getUserByTwitterHandle(This, handle)]]
    /\ UNCHANGED <<repoVars, genVars, reply>>

GetInsightsUser(s) ==
    /\ reqs[s].pc = "user"
    /\ IF reqs[s].user = Undefined
       THEN Respond(s, 404, Message("User not found"))
       ELSE /\ reqs' = [reqs EXCEPT ![s] =
                 [route |-> "insights", input |-> reqs[s].input, pc |-> "insight",
                  user |-> reqs[s].user[1],
                  insight |-> getInsight(This, reqs[s].user[1].id)]]
            /\ UNCHANGED reply
    /\ UNCHANGED <<repoVars, genVars>>

GetInsightsInsight(s) ==
    /\ reqs[s].pc = "insight"
    /\ IF reqs[s].insight # Undefined
       THEN Respond(s, 200, reqs[s].insight[1])
       ELSE /\ reqs' = [reqs EXCEPT ![s] =
                 [route |-> "insights", input |-> reqs[s].input, pc |-> "tweets",
                  user |-> reqs[s].user,
                  fetching |-> cleanHandle(reqs[s].user.twitterHandle)]]
            /\ UNCHANGED reply
    /\ UNCHANGED <<repoVars, genVars>>

GetInsightsTweets(s) ==
  \E outcome \in ArchiveOutcomes :
    /\ reqs[s].pc = "tweets"
    /\ LET tweets == getRecentPopularTweets(reqs[s].user.twitterHandle, outcome)
       IN IF tweets.outcome = "rejected"
          THEN Respond(s, 500, Message("Failed to process tweets"))
          ELSE IF BlankHistory(tweets.value)
          THEN Respond(s, 400, Message("No tweets available for analysis"))
          ELSE /\ reqs' = [reqs EXCEPT ![s] =
                    [route |-> "insights", input |-> reqs[s].input,
                     pc |-> "analysis", user |-> reqs[s].user]]
               /\ UNCHANGED reply
    /\ UNCHANGED <<repoVars, genVars>>

GetInsightsAnalysis(s) ==
  \E resp \in InsightResponses, date \in {d \in Clock : d >= now} :
    /\ reqs[s].pc = "analysis"
    /\ LET analysis == generateInsights(apiKey, IF apiKey THEN resp ELSE NoResponse)
       IN IF analysis.outcome = "rejected"
          THEN /\ Respond(s, 500, Message("Failed to process tweets"))
               /\ UNCHANGED <<storeVars, issued, now>>
          ELSE /\ currentIds.insight - 1 < MaxPerKind
               /\ now' = date
               /\ LET r == createInsight(This,
                             [userId |-> reqs[s].user.id,
                              description |-> analysis.value.description,
                              topics |-> analysis.value.topics,
                              createdAt |-> date])
                  IN /\ Stored(r, "insight")
                     /\ reqs' = [reqs EXCEPT ![s] =
                          [route |-> "insights", input |-> reqs[s].input,
                           pc |-> "created", insight |-> r.result[1]]]
                     /\ UNCHANGED reply
    /\ UNCHANGED <<ret, genVars>>

GetInsightsCreated(s) ==
    /\ reqs[s].pc = "created" /\ reqs[s].route = "insights"
    /\ Respond(s, 200, reqs[s].insight)
    /\ UNCHANGED <<repoVars, genVars>>

\* POST /api/comparisons
PostComparisonsStart(s) ==
  \E body \in ComparisonBodies :
    /\ LowestFree(s)
    /\ reqs' = [reqs EXCEPT ![s] =
         [route |-> "comparisons", input |-> body, pc |-> "users",
          userA |-> getUser(This, body.userAId),
          userB |-> getUser(This, body.userBId)]]
    /\ UNCHANGED <<repoVars, genVars, reply>>

PostComparisonsUsers(s) ==
    /\ reqs[s].pc = "users"
    /\ IF reqs[s].userA = Undefined \/ reqs[s].userB = Undefined
       THEN Respond(s, 404, Message("One or both users not found"))
       ELSE /\ reqs' = [reqs EXCEPT ![s] =
                 [route |-> "comparisons", input |-> reqs[s].input, pc |-> "insights",
                  userA |-> reqs[s].userA[1], userB |-> reqs[s].userB[1],
                  insightA |-> getInsight(This, reqs[s].userA[1].id),
                  insightB |-> getInsight(This, reqs[s].userB[1].id)]]
            /\ UNCHANGED reply
    /\ UNCHANGED <<repoVars, genVars>>

PostComparisonsInsights(s) ==
    /\ reqs[s].pc = "insights"
    /\ IF reqs[s].insightA = Undefined \/ reqs[s].insightB = Undefined
       THEN Respond(s, 404, Message("Insights not found for one or both users"))
       ELSE /\ reqs' = [reqs EXCEPT ![s] =
                 [route |-> "comparisons", input |-> reqs[s].input,
                  pc |-> "explanation",
                  userA |-> reqs[s].userA, userB |-> reqs[s].userB]]
            /\ UNCHANGED reply
    /\ UNCHANGED <<repoVars, genVars>>

\* `built` is the clock when comparisonData is built, `date` when it is stored
PostComparisonsExplanation(s) ==
  \E resp \in ExplainResponses,
     built \in {d \in Clock : d >= now} :
    \E date \in {d \in Clock : d >= built} :
      /\ reqs[s].pc = "explanation"
      /\ LET explanation == explainArgument(apiKey, IF apiKey THEN resp ELSE NoResponse)
         IN IF explanation.outcome = "rejected"
            THEN /\ Respond(s, 500, Message(explanation.error))
                 /\ UNCHANGED <<storeVars, issued, now>>
            ELSE IF explanation.value = <<>>
            THEN /\ Respond(s, 500, Message("Failed to generate explanation"))
                 /\ UNCHANGED <<storeVars, issued, now>>
            ELSE /\ currentIds.comparison - 1 < MaxCompared
                 /\ now' = date
                 /\ LET comparisonData ==
                          [userAId |-> reqs[s].userA.id,
                           userBId |-> reqs[s].userB.id,
                           argumentText |-> "Find meaningful connection points",
                           explanation |-> explanation.value,
                           createdAt |-> built]
                        r == createComparison(This, comparisonData, date)
                    IN /\ Stored(r, "comparison")
                       /\ reqs' = [reqs EXCEPT ![s] =
                            [route |-> "comparisons", input |-> reqs[s].input,
                             pc |-> "created", comparison |-> r.result[1]]]
                       /\ UNCHANGED reply
      /\ UNCHANGED <<ret, genVars>>

PostComparisonsCreated(s) ==
    /\ reqs[s].pc = "created" /\ reqs[s].route = "comparisons"
    /\ Respond(s, 200, reqs[s].comparison)
    /\ UNCHANGED <<repoVars, genVars>>

NextRoutes ==
  \/ \E s \in Slots : PostUsersStart(s)
  \/ \E s \in Slots : PostUsersCreated(s)
  \/ \E s \in Slots : GetInsightsStart(s)
  \/ \E s \in Slots : GetInsightsUser(s)
  \/ \E s \in Slots : GetInsightsInsight(s)
  \/ \E s \in Slots : GetInsightsTweets(s)
  \/ \E s \in Slots : GetInsightsAnalysis(s)
  \/ \E s \in Slots : GetInsightsCreated(s)
  \/ \E s \in Slots : PostComparisonsStart(s)
  \/ \E s \in Slots : PostComparisonsUsers(s)
  \/ \E s \in Slots : PostComparisonsInsights(s)
  \/ \E s \in Slots : PostComparisonsExplanation(s)
  \/ \E s \in Slots : PostComparisonsCreated(s)

SpecRoutes == InitRoutes /\ [][NextRoutes]_vars

----------------------------------------------------------------------------
(* Properties of the Repository.                                           *)

Range(seq) == {seq[i] : i \in 1..Len(seq)}

\* C1: within each kind the ids of the records returned by create* start at 1
\* and are strictly increasing in creation order (so unique and never reused),
\* whatever field set was passed in, one carrying an id included.
C1_IdsIncreaseFromOne ==
  \A k \in Kinds :
    /\ issued[k] # <<>> => issued[k][1].id = 1
    /\ \A i, j \in 1..Len(issued[k]) : i < j => issued[k][i].id < issued[k][j].id

\* C2: every record a create* returned is what the corresponding get returns
\* for the record's id, in every later state (for an Insight: as long as no
\* update has replaced the stored record).
C2_RoundTrip ==
  /\ \A i \in 1..Len(issued.user) :
       getUser(This, issued.user[i].id) = <<issued.user[i]>>
  /\ \A i \in 1..Len(issued.insight) :
       insights[i] = issued.insight[i]
         => getInsight(This, issued.insight[i].id) = <<issued.insight[i]>>
  /\ \A i \in 1..Len(issued.comparison) :
       getComparison(This, issued.comparison[i].id) = <<issued.comparison[i]>>

\* C3: updateInsight on an id under which no Insight is stored throws the
\* not-found error and leaves the three maps and the id counters unchanged.
C3_UpdateMissingIsNotFound ==
  [][(ret'.op = "updateInsight" /\ ret'.arg.id \notin DOMAIN insights)
       => /\ ret'.err = "Insight not found"
          /\ ret'.val = Undefined
          /\ UNCHANGED storeVars]_vars

C3_Witness ==
  /\ ret.op = "updateInsight"
  /\ ret.err = "Insight not found"
  /\ DOMAIN insights # {}
  /\ ret.arg.id \notin DOMAIN insights

\* C4: getComparisonsByUser(u) returns exactly the stored Comparisons whose
\* userAId or userBId is u.
C4_ComparisonsByUserExact ==
  ret.op = "getComparisonsByUser" =>
    Range(ret.val) =
      {comparisons[k] : k \in {k \in DOMAIN comparisons :
           comparisons[k].userAId = ret.arg \/ comparisons[k].userBId = ret.arg}}

C4_Witness ==
  /\ ret.op = "getComparisonsByUser"
  /\ \E c \in Range(ret.val) : c.userAId # ret.arg /\ c.userBId = ret.arg
  /\ \E k \in DOMAIN comparisons : comparisons[k] \notin Range(ret.val)

----------------------------------------------------------------------------
(* Properties of the generative-text client.                               *)

\* the text holds a "{" with a "}" somewhere after it
ContainsObject(text) ==
  \E i, j \in 1..Len(text) : i < j /\ text[i] = "{" /\ text[j] = "}"

\* the carved text is one object: braces around member tokens only
WellFormed(jsonStr) ==
  /\ Len(jsonStr) >= 2
  /\ Head(jsonStr) = "{"
  /\ jsonStr[Len(jsonStr)] = "}"
  /\ \A i \in 2..(Len(jsonStr) - 1) : jsonStr[i] \notin {"{", "}", "x"}

\* the last token of `among` in the text, or "none"
LastOf(text, among) ==
  LET at == {i \in 1..Len(text) : text[i] \in among}
  IN IF at = {} THEN "none" ELSE text[CHOOSE i \in at : \A j \in at : i >= j]

InsightsAnswered == genRet.op = "generateInsights"
InsightsParsed ==
  /\ InsightsAnswered
  /\ response.status = "text"
  /\ ContainsObject(response.text)
  /\ WellFormed(Match(response.text)[1])

\* C5 as stated: generateInsights resolves whatever the environment does,
\* an absent API key included.
C5_NeverRejects == InsightsAnswered => genRet.result.outcome = "resolved"

\* C5 amended: with the API key set generateInsights resolves to a
\* {description, topics} pair whatever the service answers; without it the
\* call rejects with the key-not-set error.
C5_RejectsOnlyWithoutKey ==
  InsightsAnswered =>
    IF apiKey
    THEN /\ genRet.result.outcome = "resolved"
         /\ DOMAIN genRet.result.value = {"description", "topics"}
    ELSE genRet.result = Rejected(KeyNotSet)

C5_Witness ==
  /\ InsightsAnswered
  /\ response.status = "network_error"
  /\ genRet.result.outcome = "resolved"

\* C6 as stated: a generated text without a JSON object, or whose carved
\* JSON does not parse, is answered by the fixed technology / social media pair.
C6_OneFallback ==
  (/\ InsightsAnswered
   /\ response.status = "text"
   /\ ~ContainsObject(response.text) \/ ~WellFormed(Match(response.text)[1]))
    => genRet.result = Resolved(FixedFallback)

\* C6 amended: a generated text without a JSON object is answered by the
\* fixed technology / social media pair, and one whose carved JSON does not
\* parse by the parse-error pair (one topic); neither case rejects.
C6_TwoFallbacks ==
  (InsightsAnswered /\ response.status = "text") =>
    /\ ~ContainsObject(response.text) => genRet.result = Resolved(FixedFallback)
    /\ (ContainsObject(response.text) /\ ~WellFormed(Match(response.text)[1]))
         => genRet.result = Resolved(ParseErrorFallback)

C6_Witness ==
  /\ InsightsAnswered
  /\ response.status = "text"
  /\ ContainsObject(response.text)
  /\ ~WellFormed(Match(response.text)[1])
  /\ genRet.result = Resolved(ParseErrorFallback)

\* C7 as stated: when the carved JSON parses the result has the parsed
\* description whenever one is present, the default description when it is
\* absent, the parsed topics when they are a list and [] otherwise.
C7_ParsedFields ==
  InsightsParsed =>
    LET obj == Match(response.text)[1]
        desc == LastOf(obj, {"d", "e"})
        tops == LastOf(obj, {"t", "s"})
        got == genRet.result.value
    IN /\ genRet.result.outcome = "resolved"
       /\ desc = "d" => got.description = "D"
       /\ desc = "e" => got.description = ""
       /\ desc = "none" => got.description = DefaultDescription
       /\ got.topics = IF tops = "t" THEN <<"T">> ELSE <<>>

\* C7 amended: as C7, but a present description that is empty (falsy) is
\* replaced by the default description too.
C7_ParsedFieldsTruthy ==
  InsightsParsed =>
    LET obj == Match(response.text)[1]
        desc == LastOf(obj, {"d", "e"})
        tops == LastOf(obj, {"t", "s"})
        got == genRet.result.value
    IN /\ genRet.result.outcome = "resolved"
       /\ got.description = IF desc = "d" THEN "D" ELSE DefaultDescription
       /\ got.topics = IF tops = "t" THEN <<"T">> ELSE <<>>

C7_Witness ==
  /\ InsightsParsed
  /\ LastOf(Match(response.text)[1], {"d", "e"}) = "d"
  /\ LastOf(Match(response.text)[1], {"t", "s"}) = "none"
  /\ genRet.result = Resolved([description |-> "D", topics |-> <<>>])

\* C9: translateBetweenFrames rejects, and returns no value, whenever
\* generateText fails, the text holds no JSON object or the carved JSON does
\* not parse.
C9_TranslatePropagates ==
  (/\ genRet.op = "translateBetweenFrames"
   /\ \/ ~apiKey
      \/ response.status # "text"
      \/ ~ContainsObject(response.text)
      \/ ~WellFormed(Match(response.text)[1]))
    => genRet.result.outcome = "rejected"

C9_Witness ==
  /\ genRet.op = "translateBetweenFrames"
  /\ response.status = "text"
  /\ Len(response.text) > 0
  /\ ~ContainsObject(response.text)
  /\ genRet.result = Rejected("Could not parse JSON from response")

----------------------------------------------------------------------------
(* Properties of the request handlers.                                     *)

\* C8: the Comparison that POST /api/comparisons stores and returns has the
\* userAId and userBId of the request, and a createdAt stamped by the server
\* at insert, not the client's.
C8_ComparisonMatchesRequest ==
  \A s \in Slots :
    (reqs[s].pc = "created" /\ reqs[s].route = "comparisons") =>
      LET c == reqs[s].comparison
          body == reqs[s].input
      IN /\ c.userAId = body.userAId
         /\ c.userBId = body.userBId
         /\ c.createdAt \in Clock
         /\ c.createdAt # body.createdAt
         /\ \E k \in DOMAIN comparisons : comparisons[k] = c

\* C10: when a user is stored under the handle a request names once its
\* leading "@" are stripped, the handle reaching getUserByTwitterHandle from
\* GET /api/users/:handle/insights is the stripped one and the lookup finds
\* the user.
C10_StrippedLookupMatches ==
  [][\A s \in Slots :
       (/\ reqs[s] = Free
        /\ reqs'[s] # Free
        /\ reqs'[s].route = "insights"
        /\ \E k \in DOMAIN users :
             users[k].twitterHandle = cleanHandle(reqs'[s].input))
         => /\ reqs'[s].lookup = cleanHandle(reqs'[s].input)
            /\ reqs'[s].user # Undefined]_vars

----------------------------------------------------------------------------
(* Properties of stored records.                                           *)

\* C11: a User or Comparison record, once stored, is never changed and never
\* removed by any later Repository operation (create, get, updateInsight).
C11_UsersAndComparisonsImmutable ==
  [][/\ \A k \in DOMAIN users : k \in DOMAIN users' /\ users'[k] = users[k]
     /\ \A k \in DOMAIN comparisons :
          k \in DOMAIN comparisons' /\ comparisons'[k] = comparisons[k]]_vars

C11_Witness ==
  /\ DOMAIN users # {}
  /\ ret.op = "updateInsight"
  /\ ret.err = ""
  /\ ret.val # <<issued.insight[ret.arg.id]>>

\* C14: every record stored in the users, insights and comparisons maps has
\* an id field equal to the map key it is stored under, whatever fields the
\* caller passed to create* or updateInsight (a supplied id included).
C14_IdIsMapKey ==
  /\ \A k \in DOMAIN users : users[k].id = k
  /\ \A k \in DOMAIN insights : insights[k].id = k
  /\ \A k \in DOMAIN comparisons : comparisons[k].id = k

----------------------------------------------------------------------------
(* Properties of the handler flows over the store.                         *)

Referenced(id) == getUser(This, id) # Undefined

ComparisonLacksParty(s) ==
  /\ reqs[s].pc \in {"users", "insights"}
  /\ \/ reqs[s].pc = "users"
        /\ (reqs[s].userA = Undefined \/ reqs[s].userB = Undefined)
     \/ reqs[s].pc = "insights"
        /\ (reqs[s].insightA = Undefined \/ reqs[s].insightB = Undefined)

\* C12: after every step of the three handlers, each stored Insight's userId
\* and each stored Comparison's userAId and userBId is the id of a user that
\* getUser returns; and a comparison request that found a user or an insight
\* missing ends without storing a Comparison.
C12_ReferentialIntegrity ==
  [][/\ \A k \in DOMAIN insights' : Referenced(insights[k].userId)'
     /\ \A k \in DOMAIN comparisons' :
          Referenced(comparisons[k].userAId)' /\ Referenced(comparisons[k].userBId)'
     /\ \A s \in Slots :
          ComparisonLacksParty(s) /\ reqs'[s] # reqs[s]
            => reqs'[s] = Free /\ comparisons' = comparisons]_vars

\* C13: across every interleaving of concurrent insight-by-handle requests,
\* at most one Insight is ever stored per user id.
C13_OneInsightPerUser ==
  \A i, j \in DOMAIN insights :
    insights[i].userId = insights[j].userId => i = j

====
